---------------------------- MODULE Spec2Model ----------------------------
(***************************************************************************)
(* Model of the medication / follow-up reminder scheduler of               *)
(* src/utils/scheduler.py (class HealthcareScheduler) together with the    *)
(* job registry of the `schedule` library it drives (schedule.every()      *)
(* .day.at(..).do(..) and schedule.run_pending()).                         *)
(*                                                                         *)
(* Time is discrete.  A moment is a natural number t; its calendar day is  *)
(* t \div SlotsPerDay and its time of day (an "HH:MM") is                  *)
(* t % SlotsPerDay.  The 09:00 follow-up check is slot FollowupCheckSlot.  *)
(* The foreground operations (add, stop, start/stop of the loop) are       *)
(* atomic; the background thread that runs schedule.run_pending() is       *)
(* split at the points where the foreground thread can interleave with     *)
(* it: after a handler's is_active / expiry checks and before its          *)
(* delivery, between building a snapshot and opening the file, and between *)
(* opening the file and writing the snapshot into it.                      *)
(* A second loop thread and a second HealthcareScheduler of the same       *)
(* process, which share the job list and the file with the first, are      *)
(* part of the specifications that start them.                             *)
(***************************************************************************)
EXTENDS Integers, Sequences, FiniteSets, TLC

\* ------------------------------------------------------------------ bounds
\* Last moment of the clock.
MaxNow == 4
\* Schedules one run creates (calls of uuid.uuid4()).
MaxSchedules == 2
\* Follow-up schedules the follow-up specification creates.
MaxFollowups == 1
\* Medication schedules the expiry and stop specifications create.
MaxMedications == 1
\* Longest times / reminder_days_before list given to an add call.
MaxListLen == 2
\* Largest duration_days given to add_medication_schedule.
MaxDuration == 1
\* Largest offset given in reminder_days_before.
MaxOffset == 1

\* ------------------------------------------------------- program constants
\* schedule.every().day.at("09:00"): the daily follow-up check time.
FollowupCheckSlot == 1
\* reminder_days_before defaults to [1, 3, 7].
DefaultReminderDaysBefore == <<1, 3, 7>>
\* Python's None (a schedule without chat_id).
None == "None"
\* A day is cut into the slots 0 (a time of day before 09:00), FollowupCheckSlot
\* (09:00) and one later time of day.
SlotsPerDay == FollowupCheckSlot + 2

VARIABLES
    now,                  \* datetime.now()
    medication_schedules, \* self.medication_schedules: id -> MedicationSchedule
    followup_schedules,   \* self.followup_schedules: id -> FollowUpSchedule
    jobs,                 \* schedule.jobs: the library's module-level job list
    is_running,           \* self.is_running
    pc,                   \* position of the loop thread
    pending,              \* run_pending's sorted list of runnable jobs (indices)
    data,                 \* the snapshot a save of the loop thread has built
    file,                 \* schedules.json
    outbox,               \* log of the calls made to the notification gateway
    next_id,              \* stands for uuid.uuid4(): ids are fresh
    ticked,               \* a complete poll has run in the current slot
    running_since,        \* moment the running loop was started (-1: not running)
    stopped,              \* ids whose stop call returned True in this process
    reloaded,             \* ids this process loaded from the snapshot at startup
    load_report,          \* what the startup load met and did
    last_call,            \* the last call of the facade: its input and outcome
    medication_schedules2, \* medication_schedules of a second HealthcareScheduler
    followup_schedules2,  \* followup_schedules of the second HealthcareScheduler
    is_running2,          \* is_running of the second HealthcareScheduler
    pc2,                  \* position of a second loop thread of the process
    pending2,             \* the second thread's list of runnable jobs
    data2                 \* the snapshot a save of the second thread has built

\* The second HealthcareScheduler of the process and the second loop thread.
second == <<medication_schedules2, followup_schedules2, is_running2, pc2, pending2, data2>>

vars == <<now, medication_schedules, followup_schedules, jobs, is_running, pc,
          pending, data, file, outbox, next_id, ticked, running_since, stopped,
          reloaded, load_report, last_call, medication_schedules2,
          followup_schedules2, is_running2, pc2, pending2, data2>>

\* ------------------------------------------------------------ time helpers
DayOf(t) == t \div SlotsPerDay
TimeOfDay(t) == t % SlotsPerDay
Slots == 0 .. (SlotsPerDay - 1)

\* timedelta(days=n)
Days(n) == n * SlotsPerDay

\* datetime.isoformat(): the text "<date>T<time>", here the pair <<date, time>>.
isoformat(t) == <<DayOf(t), TimeOfDay(t)>>

\* A well-formed ISO-8601 text.
IsIsoText(x) == Len(x) = 2

\* datetime.fromisoformat() of a well-formed text.
fromisoformat(x) == x[1] * SlotsPerDay + x[2]

\* ------------------------------------------------------- dictionary helpers
Put(dict, k, v) == [x \in (DOMAIN dict) \cup {k} |-> IF x = k THEN v ELSE dict[x]]

EmptyDict == [x \in {} |-> 0]

RECURSIVE SetToSeq(_)
\* dict.values() iterates in insertion order, which is the order of the ids.
SetToSeq(S) ==
    IF S = {} THEN <<>>
    ELSE LET m == CHOOSE x \in S : \A y \in S : x <= y
         IN <<m>> \o SetToSeq(S \ {m})

Values(dict) == LET ks == SetToSeq(DOMAIN dict)
                IN [i \in 1 .. Len(ks) |-> dict[ks[i]]]


\* ----------------------------------------------------------- persistence
\* One medication entry of the snapshot, as _save_schedules writes it.
SaveMedication(s) ==
    [id |-> s.id,
     medication_name |-> s.medication_name,
     dosage |-> s.dosage,
     times |-> s.times,
     duration_days |-> s.duration_days,
     start_date |-> isoformat(s.start_date),
     end_date |-> isoformat(s.end_date),
     additional_notes |-> s.additional_notes,
     is_active |-> s.is_active,
     created_at |-> isoformat(s.created_at)]

\* One follow-up entry of the snapshot, as _save_schedules writes it.
SaveFollowup(s) ==
    [id |-> s.id,
     appointment_type |-> s.appointment_type,
     appointment_date |-> isoformat(s.appointment_date),
     appointment_time |-> s.appointment_time,
     location |-> s.location,
     notes |-> s.notes,
     reminder_days_before |-> s.reminder_days_before,
     is_active |-> s.is_active,
     created_at |-> isoformat(s.created_at)]

\* The content _save_schedules writes for the in-memory sets meds and fups.
Snapshot(meds, fups) ==
    LET ms == Values(meds)
        fs == Values(fups)
    IN [exists |-> TRUE,
        parseable |-> TRUE,
        medications |-> [i \in 1 .. Len(ms) |-> SaveMedication(ms[i])],
        followups |-> [i \in 1 .. Len(fs) |-> SaveFollowup(fs[i])]]

NoFile == [exists |-> FALSE, parseable |-> TRUE, medications |-> <<>>, followups |-> <<>>]

\* schedules.json right after open('schedules.json', 'w'): the file is there
\* and empty, a text json.load rejects.
Truncated == [exists |-> TRUE, parseable |-> FALSE, medications |-> <<>>, followups |-> <<>>]

\* The text left when json.dump writes d from offset 0 into a file another
\* writer has filled since it was opened: d followed by the tail of the
\* other text, which json.load rejects.
Overwritten(d) == [d EXCEPT !.parseable = FALSE]

\* What the file can hold after json.dump has written d into a file that
\* holds `current` at that moment: d when nothing was written since the open
\* or the other text is no longer than d, the mixed text otherwise.
DumpOutcomes(d, current) ==
    IF current = Truncated \/ current = d THEN {d} ELSE {d, Overwritten(d)}

\* The keys and timestamps _load_schedules reads of a medication entry: a
\* missing key raises KeyError, a malformed timestamp ValueError.
MedicationEntryLoads(e) ==
    /\ {"id", "medication_name", "dosage", "times", "duration_days", "start_date",
        "end_date", "additional_notes", "is_active", "created_at"} \subseteq DOMAIN e
    /\ IsIsoText(e.start_date)
    /\ IsIsoText(e.end_date)
    /\ IsIsoText(e.created_at)

FollowupEntryLoads(e) ==
    /\ {"id", "appointment_type", "appointment_date", "appointment_time", "location",
        "notes", "reminder_days_before", "is_active", "created_at"} \subseteq DOMAIN e
    /\ IsIsoText(e.appointment_date)
    /\ IsIsoText(e.created_at)

\* MedicationSchedule(...) as _load_schedules builds it: chat_id is not
\* passed and keeps its default.
LoadMedication(e) ==
    [id |-> e.id,
     medication_name |-> e.medication_name,
     dosage |-> e.dosage,
     times |-> e.times,
     duration_days |-> e.duration_days,
     start_date |-> fromisoformat(e.start_date),
     end_date |-> fromisoformat(e.end_date),
     additional_notes |-> e.additional_notes,
     is_active |-> e.is_active,
     created_at |-> fromisoformat(e.created_at),
     chat_id |-> None]

LoadFollowup(e) ==
    [id |-> e.id,
     appointment_type |-> e.appointment_type,
     appointment_date |-> fromisoformat(e.appointment_date),
     appointment_time |-> e.appointment_time,
     location |-> e.location,
     notes |-> e.notes,
     reminder_days_before |-> e.reminder_days_before,
     is_active |-> e.is_active,
     created_at |-> fromisoformat(e.created_at)]

\* Number of leading entries of es that load: the loop over the entries
\* stops at the first one that raises.
RECURSIVE LoadablePrefix(_, _)
LoadablePrefix(es, medication) ==
    IF es = <<>> THEN 0
    ELSE IF (IF medication THEN MedicationEntryLoads(Head(es))
                           ELSE FollowupEntryLoads(Head(es)))
         THEN 1 + LoadablePrefix(Tail(es), medication)
         ELSE 0

\* Whether the snapshot f is one json.load or the record constructors reject.
IsCorrupt(f) ==
    /\ f.exists
    /\ \/ ~f.parseable
       \/ LoadablePrefix(f.medications, TRUE) < Len(f.medications)
       \/ LoadablePrefix(f.followups, FALSE) < Len(f.followups)

\* _load_schedules on a fresh scheduler: the schedules it ends up holding.
\* Every exception is caught and logged by the except clause, after the
\* entries read before it were stored.
LoadSchedules(f) ==
    IF ~f.exists \/ ~f.parseable
    THEN [medications |-> EmptyDict, followups |-> EmptyDict, raised |-> FALSE]
    ELSE LET nm == LoadablePrefix(f.medications, TRUE)
             nf == IF nm < Len(f.medications) THEN 0
                   ELSE LoadablePrefix(f.followups, FALSE)
         IN [medications |->
                 [k \in {f.medications[i].id : i \in 1 .. nm} |->
                     LoadMedication(CHOOSE e \in {f.medications[i] : i \in 1 .. nm} : e.id = k)],
             followups |->
                 [k \in {f.followups[i].id : i \in 1 .. nf} |->
                     LoadFollowup(CHOOSE e \in {f.followups[i] : i \in 1 .. nf} : e.id = k)],
             raised |-> FALSE]

\* ------------------------------------------------ the `schedule` library
\* Job._schedule_next_run for every().day.at(at): the first moment with time
\* of day `at` that is strictly later than t (today when `at` is still ahead,
\* otherwise tomorrow).
NextRun(at, t) ==
    IF at > TimeOfDay(t) THEN Days(DayOf(t)) + at ELSE Days(DayOf(t) + 1) + at

\* schedule.every().day.at(at).do(func, ...): the job appended to the list.
\* func is a bound method; owner is the scheduler it is bound to (1: the
\* first HealthcareScheduler of the process, 2: the second).
NewJob(func, id, days_before, at) ==
    [func |-> func, schedule_id |-> id, days_before |-> days_before, at |-> at,
     next_run |-> NextRun(at, now), owner |-> 1]

\* The jobs js as registered by the second HealthcareScheduler.
BoundToSecond(js) == [i \in DOMAIN js |-> [js[i] EXCEPT !.owner = 2]]

\* Job.should_run
ShouldRun(job) == now >= job.next_run

RECURSIVE SortByNextRun(_, _)
\* sorted(runnable_jobs): by next_run, ties in the order of the job list.
SortByNextRun(js, idx) ==
    IF idx = {} THEN <<>>
    ELSE LET m == CHOOSE i \in idx :
                      \A k \in idx : \/ js[i].next_run < js[k].next_run
                                     \/ js[i].next_run = js[k].next_run /\ i <= k
         IN <<m>> \o SortByNextRun(js, idx \ {m})

\* The jobs one schedule.run_pending() call is going to run, in order.
RunnableJobs == SortByNextRun(jobs, {i \in DOMAIN jobs : ShouldRun(jobs[i])})

\* Job.at(time_str) accepts a well-formed time of day and raises
\* ScheduleValueError on anything else.
IsTimeOfDay(at) == at \in Slots

\* A times entry that is not a time of day (such as "25:99").
MalformedTime == SlotsPerDay

RECURSIVE MedicationJobs(_, _)
\* _schedule_medication_reminders: one daily job per entry of times; the
\* exception a malformed entry raises ends the loop and is only logged, the
\* jobs registered before it stay.
MedicationJobs(id, times) ==
    IF times = <<>> THEN <<>>
    ELSE IF ~IsTimeOfDay(Head(times)) THEN <<>>
    ELSE <<NewJob("medication", id, 0, Head(times))>> \o MedicationJobs(id, Tail(times))

\* The test of _schedule_followup_reminders on one offset.
ReminderIsAhead(appointment_date, days_before) ==
    appointment_date - Days(days_before) > now

RECURSIVE FollowupJobs(_, _, _)
\* _schedule_followup_reminders: one daily 09:00 job per offset whose
\* reminder date is still ahead.
FollowupJobs(id, appointment_date, offsets) ==
    IF offsets = <<>> THEN <<>>
    ELSE (IF ReminderIsAhead(appointment_date, Head(offsets))
          THEN <<NewJob("followup", id, Head(offsets), FollowupCheckSlot)>>
          ELSE <<>>)
         \o FollowupJobs(id, appointment_date, Tail(offsets))

\* ------------------------------------------------------------- the inputs
Lists(S) == UNION {[1 .. n -> S] : n \in 1 .. MaxListLen}
\* The times lists given: 09:00, once or repeated.
TimesInputs == Lists({FollowupCheckSlot})
\* A call that omits reminder_days_before gets the default list.
OffsetsInputs == Lists(0 .. MaxOffset) \cup {DefaultReminderDaysBefore}
\* The times lists given to a call that may be ill-formed.
UncheckedTimesInputs ==
    {<<FollowupCheckSlot>>, <<MalformedTime>>, <<FollowupCheckSlot, MalformedTime>>}
\* A time of day later than the 09:00 check.
EveningSlot == FollowupCheckSlot + 1
\* The times lists of one or two distinct doses a day.
DoseTimesInputs ==
    {<<FollowupCheckSlot>>, <<EveningSlot>>, <<FollowupCheckSlot, EveningSlot>>}
ChatIds == {None, "chat1"}
Ids == 1 .. MaxSchedules

\* -------------------------------------------------- the facade's outcomes
\* No call of the facade has been made yet in this process.
NoCall == [op |-> "none", case |-> "none", returned |-> None, raised |-> None,
           changed |-> FALSE]

\* The record of one call: the operation, the class of its input, what it
\* returned, what it raised, and whether the in-memory sets, the job list or
\* the snapshot differ from before the call.
Call(op, case, returned, changed) ==
    [op |-> op, case |-> case, returned |-> returned, raised |-> None,
     changed |-> changed]

\* The inputs add_medication_schedule is documented to take: times in
\* "HH:MM" format and a duration in days.
IsValidMedicationInput(times, duration_days) ==
    /\ \A i \in DOMAIN times : IsTimeOfDay(times[i])
    /\ duration_days > 0

\* ---------------------------------------------------------- initial state
\* A first process: no snapshot on disk, HealthcareScheduler() constructed,
\* no second scheduler and no second loop thread.
Init ==
    /\ now = 0
    /\ medication_schedules = EmptyDict
    /\ followup_schedules = EmptyDict
    /\ jobs = <<>>
    /\ is_running = FALSE
    /\ pc = "none"
    /\ pending = <<>>
    /\ data = NoFile
    /\ file = NoFile
    /\ outbox = <<>>
    /\ next_id = 1
    /\ ticked = FALSE
    /\ running_since = -1
    /\ stopped = {}
    /\ reloaded = {}
    /\ load_report = [corrupt |-> FALSE, raised |-> FALSE, held |-> 0]
    /\ last_call = NoCall
    /\ medication_schedules2 = EmptyDict
    /\ followup_schedules2 = EmptyDict
    /\ is_running2 = FALSE
    /\ pc2 = "none"
    /\ pending2 = <<>>
    /\ data2 = NoFile

\* -------------------------------------------------- foreground operations
\* The MedicationSchedule record add_medication_schedule builds.
NewMedicationSchedule(id, times, duration_days, chat_id, start_date) ==
    [id |-> id,
     medication_name |-> "Lisinopril",
     dosage |-> "10mg",
     times |-> times,
     duration_days |-> duration_days,
     start_date |-> start_date,
     end_date |-> start_date + Days(duration_days),
     additional_notes |-> "",
     is_active |-> TRUE,
     created_at |-> now,
     chat_id |-> chat_id]

\* add_medication_schedule(name, dosage, times, duration_days,
\* start_date=..., chat_id=...).  The loop polls every second, so the poll
\* that counts as the slot's complete poll is one that starts after the call.
AddMedicationScheduleFrom(times, duration_days, chat_id, start_date) ==
    /\ next_id <= MaxSchedules
    /\ LET schedule == NewMedicationSchedule(next_id, times, duration_days, chat_id,
                                             start_date)
           meds == Put(medication_schedules, next_id, schedule)
       IN /\ medication_schedules' = meds
          /\ jobs' = jobs \o MedicationJobs(next_id, times)
          /\ file' = Snapshot(meds, followup_schedules)
          /\ last_call' = Call("add_medication_schedule",
                               IF IsValidMedicationInput(times, duration_days)
                               THEN "valid" ELSE "invalid",
                               "schedule_id",
                               meds # medication_schedules)
    /\ next_id' = next_id + 1
    /\ ticked' = FALSE
    /\ UNCHANGED <<now, followup_schedules, is_running, pc, pending, data, outbox,
                   running_since, stopped, reloaded, load_report>>
    /\ UNCHANGED second

\* add_medication_schedule called without start_date, which then is
\* datetime.now().
AddMedicationSchedule(times, duration_days, chat_id) ==
    AddMedicationScheduleFrom(times, duration_days, chat_id, now)

\* add_followup_schedule(type, appointment_date, time, reminder_days_before=...)
AddFollowupSchedule(appointment_date, offsets) ==
    /\ next_id <= MaxSchedules
    /\ LET reminder_days_before == offsets
           schedule == [id |-> next_id,
                        appointment_type |-> "Cardiology",
                        appointment_date |-> appointment_date,
                        appointment_time |-> "2:30 PM",
                        location |-> "",
                        notes |-> "",
                        reminder_days_before |-> reminder_days_before,
                        is_active |-> TRUE,
                        created_at |-> now]
           fups == Put(followup_schedules, next_id, schedule)
       IN /\ followup_schedules' = fups
          /\ jobs' = jobs \o FollowupJobs(next_id, appointment_date, reminder_days_before)
          /\ file' = Snapshot(medication_schedules, fups)
          /\ last_call' = Call("add_followup_schedule", "valid", "schedule_id",
                               fups # followup_schedules)
    /\ next_id' = next_id + 1
    /\ ticked' = FALSE
    /\ UNCHANGED <<now, medication_schedules, is_running, pc, pending, data, outbox,
                   running_since, stopped, reloaded, load_report>>
    /\ UNCHANGED second

\* Mutant of Deactivated: the flag is flipped.
Deactivated_Toggled(s) == [s EXCEPT !.is_active = ~@]

\* Mutant of Deactivated: the flag is left as it was.
Deactivated_FlagKept(s) == s

\* The record `schedule.is_active = False` leaves.
Deactivated(s) == [s EXCEPT !.is_active = FALSE]

\* The class of the id a stop call is given: not in the dictionary, stopped
\* by an earlier call, or known and not yet stopped.
StopCase(id, dict) ==
    IF id \notin DOMAIN dict THEN "unknown"
    ELSE IF id \in stopped THEN "stopped" ELSE "known"

\* Mutant of StopReturn: True whether or not the id is known.
StopReturn_AlwaysTrue(known) == "True"

\* The value stop_medication_schedule / stop_followup_schedule return.
StopReturn(known) == IF known THEN "True" ELSE "False"

\* stop_medication_schedule(id); an unknown id returns False and changes nothing.
StopMedicationSchedule(id) ==
    /\ IF id \in DOMAIN medication_schedules
       THEN LET meds == [medication_schedules EXCEPT ![id] = Deactivated(@)]
                snapshot == Snapshot(meds, followup_schedules)
            IN /\ medication_schedules' = meds
               /\ file' = snapshot
               /\ stopped' = stopped \cup {id}
               /\ last_call' = Call("stop_medication_schedule",
                                    StopCase(id, medication_schedules), StopReturn(TRUE),
                                    meds # medication_schedules \/ snapshot # file)
       ELSE /\ UNCHANGED <<medication_schedules, file, stopped>>
            /\ last_call' = Call("stop_medication_schedule",
                                 StopCase(id, medication_schedules), StopReturn(FALSE),
                                 medication_schedules' # medication_schedules
                                     \/ file' # file)
    /\ UNCHANGED <<now, followup_schedules, jobs, is_running, pc, pending, data, outbox,
                   next_id, ticked, running_since, reloaded, load_report>>
    /\ UNCHANGED second

\* stop_followup_schedule(id)
StopFollowupSchedule(id) ==
    /\ IF id \in DOMAIN followup_schedules
       THEN LET fups == [followup_schedules EXCEPT ![id] = Deactivated(@)]
                snapshot == Snapshot(medication_schedules, fups)
            IN /\ followup_schedules' = fups
               /\ file' = snapshot
               /\ stopped' = stopped \cup {id}
               /\ last_call' = Call("stop_followup_schedule",
                                    StopCase(id, followup_schedules), StopReturn(TRUE),
                                    fups # followup_schedules \/ snapshot # file)
       ELSE /\ UNCHANGED <<followup_schedules, file, stopped>>
            /\ last_call' = Call("stop_followup_schedule",
                                 StopCase(id, followup_schedules), StopReturn(FALSE),
                                 followup_schedules' # followup_schedules
                                     \/ file' # file)
    /\ UNCHANGED <<now, medication_schedules, jobs, is_running, pc, pending, data, outbox,
                   next_id, ticked, running_since, reloaded, load_report>>
    /\ UNCHANGED second

\* Mutant of IsActiveMedication: the end_date test is left out.
IsActiveMedication_FlagOnly(s) == s.is_active

\* The filter of get_active_schedules on a medication schedule.
IsActiveMedication(s) == s.is_active /\ now <= s.end_date

\* The filter of get_active_schedules on a follow-up schedule.
IsActiveFollowup(s) == s.is_active /\ s.appointment_date > now

\* get_active_schedules(): the ids of the two dictionaries it returns.
GetActiveSchedules ==
    [medications |-> {k \in DOMAIN medication_schedules :
                          IsActiveMedication(medication_schedules[k])},
     followups |-> {k \in DOMAIN followup_schedules :
                        IsActiveFollowup(followup_schedules[k])}]

\* start_scheduler(): a no-op while is_running; otherwise the loop thread
\* starts.  Here no earlier loop thread is left.
StartScheduler ==
    /\ ~is_running
    /\ pc = "none"
    /\ is_running' = TRUE
    /\ pc' = "idle"
    /\ running_since' = now
    /\ ticked' = FALSE
    /\ UNCHANGED <<now, medication_schedules, followup_schedules, jobs, pending, data,
                   file, outbox, next_id, stopped, reloaded, load_report, last_call>>
    /\ UNCHANGED second

\* stop_scheduler(): clears the flag and joins the thread for up to 5 seconds;
\* a sleeping loop sees the flag and exits within the join, a loop inside a
\* handler finishes its run_pending first.
StopScheduler ==
    /\ is_running
    /\ is_running' = FALSE
    /\ pc' = IF pc = "idle" THEN "none" ELSE pc
    /\ running_since' = -1
    /\ UNCHANGED <<now, medication_schedules, followup_schedules, jobs, pending, data,
                   file, outbox, next_id, ticked, stopped, reloaded, load_report, last_call>>
    /\ UNCHANGED second

\* start_scheduler() called while an earlier loop thread of this scheduler is
\* still alive with is_running cleared (a stop_scheduler whose join timed out
\* inside a handler, or whose thread has not yet left its sleep): the flag is
\* set again and a new thread is started next to the earlier one.
StartSchedulerAgain ==
    /\ ~is_running
    /\ pc # "none"
    /\ pc2 = "none"
    /\ is_running' = TRUE
    /\ pc2' = "idle"
    /\ running_since' = now
    /\ ticked' = FALSE
    /\ UNCHANGED <<now, medication_schedules, followup_schedules, jobs, pc, pending,
                   data, file, outbox, next_id, stopped, reloaded, load_report,
                   last_call, medication_schedules2, followup_schedules2,
                   is_running2, pending2, data2>>

\* Two concurrent start_scheduler() calls: both test is_running before either
\* sets it, and both start a thread.
StartSchedulerTwice ==
    /\ ~is_running
    /\ pc = "none"
    /\ pc2 = "none"
    /\ is_running' = TRUE
    /\ pc' = "idle"
    /\ pc2' = "idle"
    /\ running_since' = now
    /\ ticked' = FALSE
    /\ UNCHANGED <<now, medication_schedules, followup_schedules, jobs, pending,
                   data, file, outbox, next_id, stopped, reloaded, load_report,
                   last_call, medication_schedules2, followup_schedules2,
                   is_running2, pending2, data2>>

\* -------------------------------------------------------- the loop thread
\* Job.run after the handler returned: the job is rescheduled, and
\* run_pending goes on to its next runnable job or returns to the sleep.
JobDone ==
    /\ jobs' = [jobs EXCEPT ![Head(pending)].next_run = NextRun(jobs[Head(pending)].at, now)]
    /\ pending' = Tail(pending)
    /\ pc' = IF Tail(pending) = <<>> THEN "idle" ELSE "run"
    /\ ticked' = (ticked \/ Tail(pending) = <<>>)

\* Mutant of TickBegin: the loop is `while True`, the flag is not tested.
TickBegin_IgnoresFlag ==
    /\ pc = "idle"
    /\ pending' = RunnableJobs
    /\ pc' = IF RunnableJobs = <<>> THEN "idle" ELSE "run"
    /\ ticked' = (ticked \/ RunnableJobs = <<>>)
    /\ UNCHANGED <<now, medication_schedules, followup_schedules, jobs, is_running,
                   data, file, outbox, next_id, running_since, stopped, reloaded,
                   load_report, last_call>>
    /\ UNCHANGED second

\* One iteration of run_scheduler's loop reaches schedule.run_pending(), which
\* collects and sorts the runnable jobs.
TickBegin ==
    /\ pc = "idle"
    /\ is_running
    /\ pending' = RunnableJobs
    /\ pc' = IF RunnableJobs = <<>> THEN "idle" ELSE "run"
    /\ ticked' = (ticked \/ RunnableJobs = <<>>)
    /\ UNCHANGED <<now, medication_schedules, followup_schedules, jobs, is_running,
                   data, file, outbox, next_id, running_since, stopped, reloaded,
                   load_report, last_call>>
    /\ UNCHANGED second

\* The loop sees is_running cleared after its sleep and the thread ends.
LoopExit ==
    /\ pc = "idle"
    /\ ~is_running
    /\ pc' = "none"
    /\ UNCHANGED <<now, medication_schedules, followup_schedules, jobs, is_running,
                   pending, data, file, outbox, next_id, ticked, running_since,
                   stopped, reloaded, load_report, last_call>>
    /\ UNCHANGED second

\* Mutant of HasEnded: the expiry test allows one more day.
HasEnded_OneDayLate(s) == now > s.end_date + Days(1)

\* The expiry test of _send_medication_reminder.
HasEnded(s) == now > s.end_date

\* The medication_schedules / followup_schedules of the scheduler a job's
\* handler is bound to.
MedicationsOf(owner) == IF owner = 1 THEN medication_schedules ELSE medication_schedules2

FollowupsOf(owner) == IF owner = 1 THEN followup_schedules ELSE followup_schedules2

\* The handler's scheduler gets meds as its medication_schedules.
StoreMedications(owner, meds) ==
    IF owner = 1
    THEN medication_schedules' = meds /\ UNCHANGED medication_schedules2
    ELSE medication_schedules2' = meds /\ UNCHANGED medication_schedules

\* _send_medication_reminder up to its delivery: the lookup, the is_active
\* test and the expiry test, which deactivates the schedule and starts a save.
SendMedicationReminderCheck ==
    /\ pc = "run"
    /\ jobs[Head(pending)].func = "medication"
    /\ LET id == jobs[Head(pending)].schedule_id
           owner == jobs[Head(pending)].owner
           mine == MedicationsOf(owner)
       IN IF id \notin DOMAIN mine \/ ~mine[id].is_active
          THEN /\ JobDone
               /\ UNCHANGED <<medication_schedules, medication_schedules2, data>>
          ELSE IF HasEnded(mine[id])
          THEN LET meds == [mine EXCEPT ![id] = Deactivated(@)]
               IN /\ StoreMedications(owner, meds)
                  /\ data' = Snapshot(meds, FollowupsOf(owner))
                  /\ pc' = "save"
                  /\ UNCHANGED <<jobs, pending, ticked>>
          ELSE /\ pc' = "send"
               /\ UNCHANGED <<medication_schedules, medication_schedules2, data, jobs,
                              pending, ticked>>
    /\ UNCHANGED <<now, followup_schedules, is_running, file, outbox, next_id,
                   running_since, stopped, reloaded, load_report, last_call,
                   followup_schedules2, is_running2, pc2, pending2, data2>>

\* The day test of _send_followup_reminder.
IsReminderDay(s, days_before) ==
    DayOf(s.appointment_date - Days(days_before)) = DayOf(now)

\* _send_followup_reminder up to its delivery: the lookup, the is_active test
\* and the day test.
SendFollowupReminderCheck ==
    /\ pc = "run"
    /\ jobs[Head(pending)].func = "followup"
    /\ LET id == jobs[Head(pending)].schedule_id
       IN IF \/ id \notin DOMAIN followup_schedules
             \/ ~followup_schedules[id].is_active
             \/ ~IsReminderDay(followup_schedules[id], jobs[Head(pending)].days_before)
          THEN JobDone
          ELSE /\ pc' = "send"
               /\ UNCHANGED <<jobs, pending, ticked>>
    /\ UNCHANGED <<now, medication_schedules, followup_schedules, is_running, data,
                   file, outbox, next_id, running_since, stopped, reloaded, load_report, last_call>>
    /\ UNCHANGED second

\* _save_schedules of the expiry branch reaches open('schedules.json', 'w'),
\* which empties the file in place.
SaveOpen ==
    /\ pc = "save"
    /\ file' = Truncated
    /\ pc' = "write"
    /\ UNCHANGED <<now, medication_schedules, followup_schedules, jobs, is_running,
                   pending, data, outbox, next_id, ticked, running_since, stopped,
                   reloaded, load_report, last_call>>
    /\ UNCHANGED second

\* json.dump writes the snapshot the expiry branch built into the opened
\* file, after which the handler returns.
SaveWrite ==
    /\ pc = "write"
    /\ file' \in DumpOutcomes(data, file)
    /\ JobDone
    /\ UNCHANGED <<now, medication_schedules, followup_schedules, is_running, data,
                   outbox, next_id, running_since, stopped, reloaded, load_report, last_call>>
    /\ UNCHANGED second

\* The call a handler makes to the notification gateway, as the log keeps it:
\* the schedule's fields are read when the call is made.
GatewayCall(job, success) ==
    LET id == job.schedule_id
        medication == job.func = "medication"
        s == IF medication THEN MedicationsOf(job.owner)[id]
                           ELSE FollowupsOf(job.owner)[id]
    IN [kind |-> job.func,
        schedule_id |-> id,
        chat_id |-> IF medication THEN s.chat_id ELSE None,
        at |-> job.at,
        days_before |-> job.days_before,
        sent_at |-> now,
        limit |-> IF medication THEN s.end_date ELSE s.appointment_date,
        after_stop |-> id \in stopped,
        ok |-> success]

\* Mutant of Deliver: a failed delivery raises out of the handler and of
\* run_pending, and the loop thread ends with the rest of the tick unrun.
Deliver_FailureEndsLoop(success) ==
    /\ pc = "send"
    /\ outbox' = Append(outbox, GatewayCall(jobs[Head(pending)], success))
    /\ IF success
       THEN JobDone
       ELSE /\ pc' = "none"
            /\ pending' = <<>>
            /\ ticked' = TRUE
            /\ UNCHANGED jobs
    /\ UNCHANGED <<now, medication_schedules, followup_schedules, is_running, data,
                   file, next_id, running_since, stopped, reloaded, load_report, last_call>>
    /\ UNCHANGED second

\* telegram_sender.send_medication_reminder / send_follow_up_reminder: the
\* delivery attempt.  The sender returns False when the gateway fails or
\* raises; the handler only logs the outcome and returns.
Deliver(success) ==
    /\ pc = "send"
    /\ outbox' = Append(outbox, GatewayCall(jobs[Head(pending)], success))
    /\ JobDone
    /\ UNCHANGED <<now, medication_schedules, followup_schedules, is_running, data,
                   file, next_id, running_since, stopped, reloaded, load_report, last_call>>
    /\ UNCHANGED second

\* ------------------------------------------------- the second loop thread
\* A second thread running run_scheduler's loop in the same process: a second
\* thread of the first scheduler (inst = 1) or the thread of the second
\* scheduler (inst = 2).  It polls the same module-level job list.
IsRunning(inst) == IF inst = 1 THEN is_running ELSE is_running2

\* Job.run after the handler returned, in the second thread.
SecondJobDone ==
    /\ jobs' = [jobs EXCEPT ![Head(pending2)].next_run = NextRun(jobs[Head(pending2)].at, now)]
    /\ pending2' = Tail(pending2)
    /\ pc2' = IF Tail(pending2) = <<>> THEN "idle" ELSE "run"

\* The second thread reaches schedule.run_pending().
SecondTickBegin(inst) ==
    /\ pc2 = "idle"
    /\ IsRunning(inst)
    /\ pending2' = RunnableJobs
    /\ pc2' = IF RunnableJobs = <<>> THEN "idle" ELSE "run"
    /\ UNCHANGED <<now, medication_schedules, followup_schedules, jobs, is_running, pc,
                   pending, data, file, outbox, next_id, ticked, running_since,
                   stopped, reloaded, load_report, last_call, medication_schedules2,
                   followup_schedules2, is_running2, data2>>

\* The second thread sees its flag cleared after its sleep and ends.
SecondLoopExit(inst) ==
    /\ pc2 = "idle"
    /\ ~IsRunning(inst)
    /\ pc2' = "none"
    /\ UNCHANGED <<now, medication_schedules, followup_schedules, jobs, is_running, pc,
                   pending, data, file, outbox, next_id, ticked, running_since,
                   stopped, reloaded, load_report, last_call, medication_schedules2,
                   followup_schedules2, is_running2, pending2, data2>>

\* _send_medication_reminder up to its delivery, run by the second thread.
SecondMedicationReminderCheck ==
    /\ pc2 = "run"
    /\ jobs[Head(pending2)].func = "medication"
    /\ LET id == jobs[Head(pending2)].schedule_id
           owner == jobs[Head(pending2)].owner
           mine == MedicationsOf(owner)
       IN IF id \notin DOMAIN mine \/ ~mine[id].is_active
          THEN /\ SecondJobDone
               /\ UNCHANGED <<medication_schedules, medication_schedules2, data2>>
          ELSE IF HasEnded(mine[id])
          THEN LET meds == [mine EXCEPT ![id] = Deactivated(@)]
               IN /\ StoreMedications(owner, meds)
                  /\ data2' = Snapshot(meds, FollowupsOf(owner))
                  /\ pc2' = "save"
                  /\ UNCHANGED <<jobs, pending2>>
          ELSE /\ pc2' = "send"
               /\ UNCHANGED <<medication_schedules, medication_schedules2, data2, jobs,
                              pending2>>
    /\ UNCHANGED <<now, followup_schedules, is_running, pc, pending, data, file, outbox,
                   next_id, ticked, running_since, stopped, reloaded, load_report,
                   last_call, followup_schedules2, is_running2>>

\* _save_schedules of the expiry branch, in the second thread: the open.
SecondSaveOpen ==
    /\ pc2 = "save"
    /\ file' = Truncated
    /\ pc2' = "write"
    /\ UNCHANGED <<now, medication_schedules, followup_schedules, jobs, is_running, pc,
                   pending, data, outbox, next_id, ticked, running_since, stopped,
                   reloaded, load_report, last_call, medication_schedules2,
                   followup_schedules2, is_running2, pending2, data2>>

\* _save_schedules of the expiry branch, in the second thread: the json.dump.
SecondSaveWrite ==
    /\ pc2 = "write"
    /\ file' \in DumpOutcomes(data2, file)
    /\ SecondJobDone
    /\ UNCHANGED <<now, medication_schedules, followup_schedules, is_running, pc,
                   pending, data, outbox, next_id, ticked, running_since, stopped,
                   reloaded, load_report, last_call, medication_schedules2,
                   followup_schedules2, is_running2, data2>>

\* The delivery attempt of a handler run by the second thread.
SecondDeliver(success) ==
    /\ pc2 = "send"
    /\ outbox' = Append(outbox, GatewayCall(jobs[Head(pending2)], success))
    /\ SecondJobDone
    /\ UNCHANGED <<now, medication_schedules, followup_schedules, is_running, pc,
                   pending, data, file, next_id, ticked, running_since, stopped,
                   reloaded, load_report, last_call, medication_schedules2,
                   followup_schedules2, is_running2, data2>>

\* ---------------------------------------------------------------- the app
\* st.session_state.medication_reminders: the session's list, one reminder.
SessionReminders ==
    <<[medication |-> "Lisinopril", times |-> <<FollowupCheckSlot>>, duration |-> 1,
       chat_id |-> "chat1"]>>

\* The "Start All Reminders" button, first click: HealthcareScheduler() is
\* constructed (which loads the snapshot), every reminder of the session's
\* list is added to it, and its start_scheduler() is run in a thread.
StartAllReminders ==
    /\ ~is_running
    /\ pc = "none"
    /\ next_id <= MaxSchedules
    /\ LET reminder == SessionReminders[1]
           loaded == LoadSchedules(file)
           schedule == NewMedicationSchedule(next_id, reminder.times, reminder.duration,
                                             reminder.chat_id, now)
           meds == Put(loaded.medications, next_id, schedule)
       IN /\ medication_schedules' = meds
          /\ followup_schedules' = loaded.followups
          /\ jobs' = jobs \o MedicationJobs(next_id, reminder.times)
          /\ file' = Snapshot(meds, loaded.followups)
          /\ last_call' = Call("add_medication_schedule", "valid", "schedule_id", TRUE)
    /\ next_id' = next_id + 1
    /\ is_running' = TRUE
    /\ pc' = "idle"
    /\ running_since' = now
    /\ ticked' = FALSE
    /\ UNCHANGED <<now, pending, data, outbox, stopped, reloaded, load_report>>
    /\ UNCHANGED second

\* The button clicked again in the same process: another HealthcareScheduler()
\* is constructed next to the first one, loads the snapshot the first one
\* wrote, is given every reminder of the list again, registers its jobs in
\* the same job list, and its start_scheduler() is run in another thread.
StartAllRemindersAgain ==
    /\ is_running
    /\ ~is_running2
    /\ pc2 = "none"
    /\ next_id <= MaxSchedules
    /\ LET reminder == SessionReminders[1]
           loaded == LoadSchedules(file)
           schedule == NewMedicationSchedule(next_id, reminder.times, reminder.duration,
                                             reminder.chat_id, now)
           meds == Put(loaded.medications, next_id, schedule)
       IN /\ medication_schedules2' = meds
          /\ followup_schedules2' = loaded.followups
          /\ jobs' = jobs \o BoundToSecond(MedicationJobs(next_id, reminder.times))
          /\ file' = Snapshot(meds, loaded.followups)
          /\ last_call' = Call("add_medication_schedule", "valid", "schedule_id", TRUE)
    /\ next_id' = next_id + 1
    /\ is_running2' = TRUE
    /\ pc2' = "idle"
    /\ ticked' = FALSE
    /\ UNCHANGED <<now, medication_schedules, followup_schedules, is_running, pc,
                   pending, data, outbox, running_since, stopped, reloaded,
                   load_report, pending2, data2>>

\* ------------------------------------------------------- the environment
\* The clock moves to the next slot.  A handler returns within the slot it
\* started in, and a running loop, which polls every second, completes at
\* least one poll in every slot.
Advance ==
    /\ now < MaxNow
    /\ pc \in {"none", "idle"}
    /\ pc2 \in {"none", "idle"}
    /\ (is_running => ticked)
    /\ now' = now + 1
    /\ ticked' = FALSE
    /\ UNCHANGED <<medication_schedules, followup_schedules, jobs, is_running, pc,
                   pending, data, file, outbox, next_id, running_since, stopped,
                   reloaded, load_report, last_call>>
    /\ UNCHANGED second

\* The process ends while no handler is running and a new process constructs
\* HealthcareScheduler(): the job list of the new process is empty and
\* __init__ loads the snapshot.
Restart ==
    /\ pc \in {"none", "idle"}
    /\ pc2 \in {"none", "idle"}
    /\ file.exists
    /\ LET loaded == LoadSchedules(file)
       IN /\ medication_schedules' = loaded.medications
          /\ followup_schedules' = loaded.followups
          /\ reloaded' = DOMAIN loaded.medications \cup DOMAIN loaded.followups
          /\ load_report' = [corrupt |-> IsCorrupt(file), raised |-> loaded.raised,
                              held |-> Cardinality(DOMAIN loaded.medications)
                                       + Cardinality(DOMAIN loaded.followups)]
    /\ jobs' = <<>>
    /\ is_running' = FALSE
    /\ pc' = "none"
    /\ pending' = <<>>
    /\ data' = NoFile
    /\ ticked' = FALSE
    /\ running_since' = -1
    /\ stopped' = {}
    /\ last_call' = NoCall
    /\ UNCHANGED <<now, file, outbox, next_id>>
    /\ medication_schedules2' = EmptyDict
    /\ followup_schedules2' = EmptyDict
    /\ is_running2' = FALSE
    /\ pc2' = "none"
    /\ pending2' = <<>>
    /\ data2' = NoFile

\* The snapshot text without its entry i's is_active key.
WithoutKey(entries, i) ==
    [entries EXCEPT ![i] = [k \in DOMAIN @ \ {"is_active"} |-> @[k]]]

\* The snapshot text with a malformed created_at timestamp in entry i.
WithBadTimestamp(entries, i) == [entries EXCEPT ![i].created_at = <<>>]

\* The snapshot on disk is damaged from outside the program: truncated, or
\* one entry loses a key or gets a malformed timestamp.
CorruptFile ==
    /\ file.exists
    /\ ~IsCorrupt(file)
    /\ pc \in {"none", "idle"}
    /\ \/ file' = [file EXCEPT !.parseable = FALSE]
       \/ \E i \in DOMAIN file.medications :
              \/ file' = [file EXCEPT !.medications = WithoutKey(@, i)]
              \/ file' = [file EXCEPT !.medications = WithBadTimestamp(@, i)]
       \/ \E i \in DOMAIN file.followups :
              \/ file' = [file EXCEPT !.followups = WithoutKey(@, i)]
              \/ file' = [file EXCEPT !.followups = WithBadTimestamp(@, i)]
    /\ UNCHANGED <<now, medication_schedules, followup_schedules, jobs, is_running, pc,
                   pending, data, outbox, next_id, ticked, running_since, stopped,
                   reloaded, load_report, last_call>>
    /\ UNCHANGED second

\* ------------------------------------------------------- specification
\* The loop thread and the clock.
LoopStep ==
    \/ StartScheduler
    \/ StopScheduler
    \/ TickBegin
    \/ LoopExit
    \/ \E success \in BOOLEAN : Deliver(success)
    \/ Advance

\* The medication side of the scheduler: add, stop, dispatch, expiry, restart.
NextMed ==
    \/ \E times \in TimesInputs, duration_days \in 1 .. MaxDuration :
           AddMedicationSchedule(times, duration_days, "chat1")
    \/ \E id \in Ids : StopMedicationSchedule(id)
    \/ SendMedicationReminderCheck
    \/ SaveOpen
    \/ SaveWrite
    \/ LoopStep
    \/ Restart

SpecMed == Init /\ [][NextMed]_vars

\* The follow-up side of the scheduler: add, stop, the daily 09:00 check.
NextFup ==
    \/ \E appointment_date \in 0 .. MaxNow, offsets \in OffsetsInputs :
           /\ Cardinality(DOMAIN followup_schedules) < MaxFollowups
           /\ AddFollowupSchedule(appointment_date, offsets)
    \/ \E id \in Ids : StopFollowupSchedule(id)
    \/ SendFollowupReminderCheck
    \/ LoopStep

SpecFup == Init /\ [][NextFup]_vars

\* The schedule store: the facade's mutations, each followed by its save, and
\* the load of the snapshot by the next process.
NextStore ==
    \/ \E times \in TimesInputs, duration_days \in 1 .. MaxDuration, chat_id \in ChatIds :
           AddMedicationSchedule(times, duration_days, chat_id)
    \/ \E appointment_date \in 0 .. MaxNow :
           AddFollowupSchedule(appointment_date, DefaultReminderDaysBefore)
    \/ \E id \in Ids : StopMedicationSchedule(id)
    \/ \E id \in Ids : StopFollowupSchedule(id)
    \/ Advance
    \/ Restart
    \/ CorruptFile

SpecStore == Init /\ [][NextStore]_vars

\* One-dose medication schedules under the background loop, from creation to
\* the end-date check of _send_medication_reminder, with stops.
NextExpiry ==
    \/ \E duration_days \in 1 .. MaxDuration :
           /\ Cardinality(DOMAIN medication_schedules) < MaxMedications
           /\ AddMedicationSchedule(<<FollowupCheckSlot>>, duration_days, "chat1")
    \/ \E id \in Ids : StopMedicationSchedule(id)
    \/ SendMedicationReminderCheck
    \/ SaveOpen
    \/ SaveWrite
    \/ LoopStep

SpecExpiry == Init /\ [][NextExpiry]_vars

\* Adding and stopping schedules of both kinds while the clock advances, as
\* seen by get_active_schedules; the appointments are at the moment of the
\* call or right after it.
NextStop ==
    \/ \E duration_days \in 1 .. MaxDuration :
           /\ Cardinality(DOMAIN medication_schedules) < MaxMedications
           /\ AddMedicationSchedule(<<FollowupCheckSlot>>, duration_days, "chat1")
    \/ \E appointment_date \in {now, now + 1} :
           /\ Cardinality(DOMAIN followup_schedules) < MaxFollowups
           /\ AddFollowupSchedule(appointment_date, DefaultReminderDaysBefore)
    \/ \E id \in Ids : StopMedicationSchedule(id)
    \/ \E id \in Ids : StopFollowupSchedule(id)
    \/ Advance

SpecStop == Init /\ [][NextStop]_vars

\* Medication schedules of one or two doses a day under the background loop,
\* never stopped by the caller: creation, the daily jobs, the end-date check.
NextDose ==
    \/ \E times \in DoseTimesInputs, duration_days \in 1 .. MaxDuration :
           /\ Cardinality(DOMAIN medication_schedules) < MaxMedications
           /\ AddMedicationSchedule(times, duration_days, "chat1")
    \/ SendMedicationReminderCheck
    \/ SaveOpen
    \/ SaveWrite
    \/ LoopStep

SpecDose == Init /\ [][NextDose]_vars

\* add_medication_schedule called with well-formed and ill-formed inputs,
\* with and without a recipient, starting now or a day ahead, the loop
\* running or not, and the next process loading what was saved.
NextAdd ==
    \/ \E times \in UncheckedTimesInputs, duration_days \in -1 .. MaxDuration,
          chat_id \in ChatIds, start_date \in {now, now + Days(1)} :
           /\ Cardinality(DOMAIN medication_schedules) < MaxMedications
           /\ AddMedicationScheduleFrom(times, duration_days, chat_id, start_date)
    \/ \E id \in Ids : StopMedicationSchedule(id)
    \/ SendMedicationReminderCheck
    \/ SaveOpen
    \/ SaveWrite
    \/ LoopStep
    \/ Restart

SpecAdd == Init /\ [][NextAdd]_vars

\* Medication schedules added, stopped and expiring within one process while
\* the background loop runs.
NextFrame ==
    \/ \E duration_days \in 1 .. MaxDuration :
           AddMedicationSchedule(<<FollowupCheckSlot>>, duration_days, "chat1")
    \/ \E id \in Ids : StopMedicationSchedule(id)
    \/ SendMedicationReminderCheck
    \/ SaveOpen
    \/ SaveWrite
    \/ LoopStep

SpecFrame == Init /\ [][NextFrame]_vars

\* One scheduler whose start_scheduler and stop_scheduler are called in any
\* order, also while a loop thread is inside a handler: up to two loop
\* threads of the scheduler.
NextThreads ==
    \/ \E duration_days \in 1 .. MaxDuration :
           /\ Cardinality(DOMAIN medication_schedules) < MaxMedications
           /\ AddMedicationSchedule(<<FollowupCheckSlot>>, duration_days, "chat1")
    \/ SendMedicationReminderCheck
    \/ SaveOpen
    \/ SaveWrite
    \/ LoopStep
    \/ StartSchedulerAgain
    \/ StartSchedulerTwice
    \/ SecondTickBegin(1)
    \/ SecondLoopExit(1)
    \/ SecondMedicationReminderCheck
    \/ SecondSaveOpen
    \/ SecondSaveWrite
    \/ \E success \in BOOLEAN : SecondDeliver(success)

SpecThreads == Init /\ [][NextThreads]_vars

\* The app's "Start All Reminders" button clicked once or twice in one
\* process: two schedulers, their two loop threads, one job list, one file.
NextApp ==
    \/ StartAllReminders
    \/ StartAllRemindersAgain
    \/ TickBegin
    \/ SendMedicationReminderCheck
    \/ SaveOpen
    \/ SaveWrite
    \/ \E success \in BOOLEAN : Deliver(success)
    \/ SecondTickBegin(2)
    \/ SecondMedicationReminderCheck
    \/ SecondSaveOpen
    \/ SecondSaveWrite
    \/ \E success \in BOOLEAN : SecondDeliver(success)
    \/ Advance

SpecApp == Init /\ [][NextApp]_vars

\* ------------------------------------------------------------ the claims
Range(seq) == {seq[i] : i \in DOMAIN seq}

NoRepeats(seq) == Cardinality(Range(seq)) = Len(seq)

\* The gateway calls made for medication schedule id by a job of time of day
\* `at` on calendar day `day`.
MedicationDeliveries(id, at, day) ==
    {i \in DOMAIN outbox : /\ outbox[i].kind = "medication"
                           /\ outbox[i].schedule_id = id
                           /\ outbox[i].at = at
                           /\ DayOf(outbox[i].sent_at) = day}

\* The gateway calls made for offset days_before of follow-up schedule id.
FollowupDeliveries(id, days_before) ==
    {i \in DOMAIN outbox : /\ outbox[i].kind = "followup"
                           /\ outbox[i].schedule_id = id
                           /\ outbox[i].days_before = days_before}

\* C1: for every medication schedule, every time of day of its times list and
\* every calendar day, at most one reminder delivery is attempted, also when
\* the list holds the same HH:MM twice.
C1_AtMostOneDeliveryPerTimeAndDay ==
    \A id \in Ids, at \in Slots, day \in 0 .. DayOf(MaxNow) :
        Cardinality(MedicationDeliveries(id, at, day)) <= 1

\* C2: no medication reminder delivery is attempted at a moment later than the
\* schedule's end_date.
C2_NoDeliveryAfterEndDate ==
    \A i \in DOMAIN outbox :
        outbox[i].kind = "medication" => outbox[i].sent_at <= outbox[i].limit

\* C2 witness: a job of a schedule that was delivered before ran after the
\* end_date, and the dispatcher deactivated the schedule instead of delivering.
C2_Witness ==
    \E id \in DOMAIN medication_schedules :
        /\ HasEnded(medication_schedules[id])
        /\ ~medication_schedules[id].is_active
        /\ id \notin stopped
        /\ id \notin reloaded
        /\ \E i \in DOMAIN outbox : outbox[i].schedule_id = id

\* C3: a follow-up reminder for offset N is delivered at most once, only on
\* the calendar day of appointment_date - N days, and only while
\* appointment_date is later than the moment of the check (stated for
\* reminder_days_before lists without repeated offsets).
C3_FollowupOnlyOnItsDayBeforeAppointment ==
    \A i \in DOMAIN outbox :
        (/\ outbox[i].kind = "followup"
         /\ NoRepeats(followup_schedules[outbox[i].schedule_id].reminder_days_before))
        => /\ Cardinality(FollowupDeliveries(outbox[i].schedule_id,
                                             outbox[i].days_before)) <= 1
           /\ DayOf(outbox[i].sent_at)
                  = DayOf(outbox[i].limit - Days(outbox[i].days_before))
           /\ outbox[i].limit > outbox[i].sent_at

\* C4: with the loop running since the add and the schedule never stopped,
\* every offset N of an active follow-up schedule is delivered exactly once,
\* on the calendar day of appointment_date - N days (stated for the offsets
\* whose reminder date was still ahead when the schedule was added, once that
\* day is over).
C4_ExactlyOneDeliveryOnReminderDay ==
    \A id \in DOMAIN followup_schedules :
        LET s == followup_schedules[id]
        IN \A k \in DOMAIN s.reminder_days_before :
               LET days_before == s.reminder_days_before[k]
                   reminder_date == s.appointment_date - Days(days_before)
               IN (/\ s.is_active
                   /\ is_running
                   /\ running_since <= s.created_at
                   /\ NoRepeats(s.reminder_days_before)
                   /\ reminder_date > s.created_at
                   /\ DayOf(now) > DayOf(reminder_date))
                  => /\ Cardinality(FollowupDeliveries(id, days_before)) = 1
                     /\ \A i \in FollowupDeliveries(id, days_before) :
                            DayOf(outbox[i].sent_at) = DayOf(reminder_date)

\* C5: _save_schedules followed by _load_schedules in a fresh scheduler
\* reproduces the schedule set: same ids, same value of every field
\* (chat_id included), same is_active flags.
C5_SaveLoadRoundTrip ==
    LET loaded == LoadSchedules(Snapshot(medication_schedules, followup_schedules))
    IN /\ loaded.medications = medication_schedules
       /\ loaded.followups = followup_schedules

\* C6: a reloaded active medication schedule keeps producing its reminders
\* once the loop of the new process is started: a delivery is attempted at
\* each of its times of day in every slot after the start that the loop has
\* polled, up to end_date.
C6_ReloadedSchedulesKeepFiring ==
    \A id \in DOMAIN medication_schedules \cap reloaded :
        LET s == medication_schedules[id]
        IN (s.is_active /\ is_running)
           => \A t \in (running_since + 1) .. now :
                  (/\ t < now \/ (ticked /\ pc = "idle")
                   /\ TimeOfDay(t) \in Range(s.times)
                   /\ t <= s.end_date)
                  => \E i \in DOMAIN outbox : /\ outbox[i].kind = "medication"
                                              /\ outbox[i].schedule_id = id
                                              /\ outbox[i].sent_at = t

\* C7: after stop_medication_schedule(id) or stop_followup_schedule(id) has
\* returned for a known id, get_active_schedules() does not contain id.
C7_StoppedIsNotListedActive ==
    \A id \in stopped :
        /\ id \notin GetActiveSchedules.medications
        /\ id \notin GetActiveSchedules.followups

\* C7 witness: a medication schedule and a follow-up schedule were stopped
\* before their end_date / appointment_date.
C7_Witness ==
    /\ \E id \in stopped \cap DOMAIN medication_schedules :
           now <= medication_schedules[id].end_date
    /\ \E id \in stopped \cap DOMAIN followup_schedules :
           followup_schedules[id].appointment_date > now

\* C8: once a schedule's is_active flag is false it is false in every later
\* state; no add, stop, tick, save or load sets it back to true.
C8_NeverReactivated ==
    [][\A id \in (DOMAIN medication_schedules) \cap (DOMAIN medication_schedules') :
           ~medication_schedules[id].is_active => ~medication_schedules'[id].is_active]_vars

\* C9: after stop_medication_schedule(id) has returned True no further
\* reminder delivery is attempted for id, also when the stop runs
\* concurrently with a tick of the loop.
C9_NoDeliveryAfterStop ==
    \A i \in DOMAIN outbox : ~outbox[i].after_stop

\* C10: loading a corrupt snapshot raises CorruptStateError to the caller and
\* leaves the scheduler without a partial set of the snapshot's schedules.
C10_CorruptSnapshotRaises ==
    load_report.corrupt => /\ load_report.raised
                           /\ load_report.held = 0

\* C11: a call of add_medication_schedule whose times list holds an entry
\* that is not a well-formed HH:MM, or whose duration_days is not > 0, raises
\* ValidationError and leaves the schedule set, the jobs and the snapshot
\* unchanged.
C11_InvalidAddIsRejected ==
    (last_call.op = "add_medication_schedule" /\ last_call.case = "invalid")
    => /\ last_call.raised = "ValidationError"
       /\ ~last_call.changed

C13_StopIsIdempotent ==
    last_call.case = "stopped"
    => /\ last_call.returned = "True"
       /\ last_call.raised = None
       /\ ~last_call.changed

\* C13 witness: the last call was a second stop of a medication schedule that
\* is still before its end_date, next to a stopped follow-up schedule.
C13_Witness ==
    /\ last_call.op = "stop_medication_schedule"
    /\ last_call.case = "stopped"
    /\ \E id \in stopped \cap DOMAIN medication_schedules :
           now <= medication_schedules[id].end_date
    /\ stopped \cap DOMAIN followup_schedules # {}

\* C16: get_active_schedules() returns exactly the medication schedules with
\* is_active and now <= end_date and exactly the follow-up schedules with
\* is_active and appointment_date > now.
C16_ActiveSchedulesExact ==
    /\ \A id \in Ids :
           id \in GetActiveSchedules.medications
           <=> /\ id \in DOMAIN medication_schedules
               /\ medication_schedules[id].is_active = TRUE
               /\ ~(now > medication_schedules[id].end_date)
    /\ \A id \in Ids :
           id \in GetActiveSchedules.followups
           <=> /\ id \in DOMAIN followup_schedules
               /\ followup_schedules[id].is_active = TRUE
               /\ ~(followup_schedules[id].appointment_date <= now)

\* C16 witness: a medication schedule is past its end_date with is_active
\* still true (no tick has run), and is not returned, next to a follow-up
\* schedule whose appointment has passed and is not returned either.
C16_Witness ==
    /\ \E id \in DOMAIN medication_schedules :
           /\ medication_schedules[id].is_active
           /\ now > medication_schedules[id].end_date
           /\ id \notin GetActiveSchedules.medications
    /\ \E id \in DOMAIN followup_schedules :
           /\ followup_schedules[id].is_active
           /\ followup_schedules[id].appointment_date <= now
           /\ id \notin GetActiveSchedules.followups

\* Two gateway calls are attempts of the same occurrence: the same
\* (schedule, time of day, calendar day) or the same (follow-up, offset).
SameOccurrence(a, b) ==
    /\ a.kind = b.kind
    /\ a.schedule_id = b.schedule_id
    /\ IF a.kind = "medication"
       THEN a.at = b.at /\ DayOf(a.sent_at) = DayOf(b.sent_at)
       ELSE a.days_before = b.days_before

\* C14: after a delivery attempt for an occurrence has failed, no further
\* delivery attempt is made for that occurrence, in the same tick or later.
C14_FailedOccurrenceIsNotRetried ==
    \A i, j \in DOMAIN outbox :
        (i < j /\ ~outbox[i].ok) => ~SameOccurrence(outbox[i], outbox[j])

\* C14 restricted to schedules whose times list holds no HH:MM twice.
C14_NoRetryWithoutRepeatedTimes ==
    \A i, j \in DOMAIN outbox :
        (/\ i < j
         /\ ~outbox[i].ok
         /\ outbox[i].schedule_id \in DOMAIN medication_schedules
         /\ NoRepeats(medication_schedules[outbox[i].schedule_id].times))
        => ~SameOccurrence(outbox[i], outbox[j])

\* The ids and is_active flags of the entries of a snapshot.
SnapshotFlags(entries) == {<<entries[i].id, entries[i].is_active>> : i \in DOMAIN entries}

\* The ids and is_active flags of an in-memory schedule set.
MemoryFlags(dict) == {<<id, dict[id].is_active>> : id \in DOMAIN dict}

\* C15: whenever every mutation made so far (add, stop, expiry transition)
\* has returned, the snapshot holds exactly the schedules of the in-memory
\* set, with the same ids and is_active flags.
C15_SnapshotIsCurrentTruth ==
    (pc \notin {"save", "write"} /\ file.exists)
    => /\ SnapshotFlags(file.medications) = MemoryFlags(medication_schedules)
       /\ SnapshotFlags(file.followups) = MemoryFlags(followup_schedules)

\* C17: a medication schedule with two times of day and duration_days = 1,
\* added at its first time of day on Day0 while the loop runs, gets exactly
\* one delivery for each of the two times on Day0 and none on Day1.
C17_TwoDeliveriesOnDay0NoneOnDay1 ==
    \A id \in DOMAIN medication_schedules :
        LET s == medication_schedules[id]
            day0 == DayOf(s.start_date)
        IN (/\ s.times = <<FollowupCheckSlot, EveningSlot>>
            /\ s.duration_days = 1
            /\ TimeOfDay(s.start_date) = FollowupCheckSlot
            /\ is_running
            /\ running_since < s.created_at)
           => /\ DayOf(now) > day0
                  => /\ Cardinality(MedicationDeliveries(id, FollowupCheckSlot, day0)) = 1
                     /\ Cardinality(MedicationDeliveries(id, EveningSlot, day0)) = 1
              /\ \A at \in Slots : MedicationDeliveries(id, at, day0 + 1) = {}

\* C18 as stated: once a tick of the running loop has completed at a moment
\* later than a medication schedule's end_date, the schedule's is_active flag
\* is false in memory and in the snapshot, and no reminder was delivered for
\* it after end_date.
C18_InactiveAfterFirstTickPastEndDate ==
    \A id \in DOMAIN medication_schedules \ reloaded :
        LET s == medication_schedules[id]
        IN (is_running /\ ticked /\ pc = "idle" /\ now > s.end_date)
           => /\ ~s.is_active
              /\ <<id, FALSE>> \in SnapshotFlags(file.medications)
              /\ \A i \in DOMAIN outbox :
                     outbox[i].schedule_id = id => outbox[i].sent_at <= s.end_date

\* C19: with the loop running, every moment from the creation of an active
\* medication schedule on whose time of day is one of the schedule's times,
\* that is not later than end_date and whose poll is complete, has a delivery
\* attempt; the moment of the creation itself is included.
C19_DueOccurrencesFire ==
    \A id \in DOMAIN medication_schedules \ (stopped \cup reloaded) :
        LET s == medication_schedules[id]
        IN (s.is_active /\ is_running /\ running_since < s.created_at)
           => \A t \in s.created_at .. now :
                  (/\ t < now \/ (ticked /\ pc = "idle")
                   /\ TimeOfDay(t) \in Range(s.times)
                   /\ t <= s.end_date)
                  => \E i \in DOMAIN outbox : /\ outbox[i].kind = "medication"
                                              /\ outbox[i].schedule_id = id
                                              /\ outbox[i].sent_at = t

\* C19 for the moments after the one of the creation.
C19_DueOccurrencesFireAfterCreation ==
    \A id \in DOMAIN medication_schedules \ (stopped \cup reloaded) :
        LET s == medication_schedules[id]
        IN (s.is_active /\ is_running /\ running_since < s.created_at)
           => \A t \in (s.created_at + 1) .. now :
                  (/\ t < now \/ (ticked /\ pc = "idle")
                   /\ TimeOfDay(t) \in Range(s.times)
                   /\ t <= s.end_date)
                  => \E i \in DOMAIN outbox : /\ outbox[i].kind = "medication"
                                              /\ outbox[i].schedule_id = id
                                              /\ outbox[i].sent_at = t

\* C20: a failed delivery does not end the loop thread or cut the tick short:
\* the thread is alive whenever is_running is set, and once the tick of a
\* failed delivery is complete no job is left that was runnable in it and
\* every active, unexpired medication schedule with that time of day has a
\* delivery attempt at that moment.
C20_FailureStaysInsideTheHandler ==
    /\ is_running => pc # "none"
    /\ \A i \in DOMAIN outbox :
           (/\ ~outbox[i].ok
            /\ outbox[i].sent_at < now \/ pc \in {"idle", "none"})
           => /\ \A j \in DOMAIN jobs : jobs[j].next_run > outbox[i].sent_at
              /\ \A id \in DOMAIN medication_schedules \ (stopped \cup reloaded) :
                     LET s == medication_schedules[id]
                     IN (/\ s.created_at < outbox[i].sent_at
                         /\ outbox[i].sent_at <= s.end_date
                         /\ TimeOfDay(outbox[i].sent_at) \in Range(s.times))
                        => \E k \in DOMAIN outbox :
                               /\ outbox[k].schedule_id = id
                               /\ outbox[k].sent_at = outbox[i].sent_at

\* C20 witness: a delivery failed and the same tick went on to attempt the
\* delivery of another occurrence.
C20_Witness ==
    \E i, k \in DOMAIN outbox :
        /\ i < k
        /\ ~outbox[i].ok
        /\ outbox[k].sent_at = outbox[i].sent_at
        /\ ~SameOccurrence(outbox[i], outbox[k])

\* C21: the loop thread's handlers are serialised with the facade's add and
\* stop calls: between a handler's is_active test and its delivery the
\* schedule it tested is still active, and the snapshot a tick's expiry
\* transition is saving is the snapshot of the schedule set as it is, no add
\* or stop having run in between.
C21_HandlerIsSerialisedWithFacade ==
    /\ pc \in {"save", "write"}
           => data = Snapshot(medication_schedules, followup_schedules)
    /\ pc = "send"
           => LET job == jobs[Head(pending)]
              IN IF job.func = "medication"
                 THEN medication_schedules[job.schedule_id].is_active
                 ELSE followup_schedules[job.schedule_id].is_active

\* C22: at every instant the snapshot file, once written, holds a complete
\* snapshot a load accepts: never an empty, partial or interleaved text.
C22_FileAlwaysHoldsCompleteSnapshot ==
    file.exists => ~IsCorrupt(file)

C24_EndDateIsStartPlusDuration ==
    [][\A id \in DOMAIN medication_schedules' :
           LET s == medication_schedules'[id]
           IN /\ s.end_date = s.start_date + Days(s.duration_days)
              /\ s.end_date >= s.start_date
              /\ id \in DOMAIN medication_schedules
                     => /\ s.start_date = medication_schedules[id].start_date
                        /\ s.end_date = medication_schedules[id].end_date
      ]_vars

\* C24 for the calls with duration_days >= 0.
C24_EndDateOfNonNegativeDuration ==
    [][\A id \in DOMAIN medication_schedules' :
           LET s == medication_schedules'[id]
           IN s.duration_days >= 0
              => /\ s.end_date = s.start_date + Days(s.duration_days)
                 /\ s.end_date >= s.start_date
                 /\ id \in DOMAIN medication_schedules
                        => /\ s.start_date = medication_schedules[id].start_date
                           /\ s.end_date = medication_schedules[id].end_date
      ]_vars

\* C25: no call to the notification gateway is made for a medication schedule
\* that has no chat_id.
C25_NoDispatchWithoutRecipient ==
    \A i \in DOMAIN outbox :
        outbox[i].kind = "medication" => outbox[i].chat_id # None

\* C29: no reminder of a medication schedule is delivered at a moment earlier
\* than the schedule's start_date.
C29_NoDeliveryBeforeStartDate ==
    \A i \in DOMAIN outbox :
        (/\ outbox[i].kind = "medication"
         /\ outbox[i].schedule_id \in DOMAIN medication_schedules)
        => outbox[i].sent_at >= medication_schedules[outbox[i].schedule_id].start_date

\* The ids of the entries of a snapshot a load accepts.
SnapshotIds(f) ==
    IF f.exists /\ f.parseable
    THEN {f.medications[i].id : i \in DOMAIN f.medications}
             \cup {f.followups[i].id : i \in DOMAIN f.followups}
    ELSE {}

\* The step changes at most the is_active flag of the records of dict, and
\* removes none.
OnlyFlagsChange(dict, dictNext) ==
    \A id \in DOMAIN dict :
        /\ id \in DOMAIN dictNext
        /\ [dictNext[id] EXCEPT !.is_active = dict[id].is_active] = dict[id]

\* C26: no step removes a schedule record or changes a field of it other than
\* is_active; is_active changes only in a stop call of that id or in the
\* expiry branch of a job of that id; and whenever no save is in progress
\* every stopped or expired (inactive) record is in the snapshot.
C26_RecordsStayAndOnlyFlagsChange ==
    [][/\ OnlyFlagsChange(medication_schedules, medication_schedules')
       /\ OnlyFlagsChange(followup_schedules, followup_schedules')
       /\ \A id \in DOMAIN medication_schedules :
              medication_schedules'[id].is_active # medication_schedules[id].is_active
              => \/ /\ last_call'.op = "stop_medication_schedule"
                    /\ stopped' = stopped \cup {id}
                 \/ /\ pc = "run"
                    /\ jobs[Head(pending)].schedule_id = id
                    /\ HasEnded(medication_schedules[id])
       /\ \A id \in DOMAIN followup_schedules :
              followup_schedules'[id].is_active # followup_schedules[id].is_active
              => /\ last_call'.op = "stop_followup_schedule"
                 /\ stopped' = stopped \cup {id}
       /\ pc' \notin {"save", "write"}
              => \A id \in DOMAIN medication_schedules' :
                     ~medication_schedules'[id].is_active => id \in SnapshotIds(file')
      ]_vars

\* C26 for the records in memory alone.
C26_MemoryFrame ==
    [][/\ OnlyFlagsChange(medication_schedules, medication_schedules')
       /\ OnlyFlagsChange(followup_schedules, followup_schedules')
       /\ \A id \in DOMAIN medication_schedules :
              medication_schedules'[id].is_active # medication_schedules[id].is_active
              => \/ /\ last_call'.op = "stop_medication_schedule"
                    /\ stopped' = stopped \cup {id}
                 \/ /\ pc = "run"
                    /\ jobs[Head(pending)].schedule_id = id
                    /\ HasEnded(medication_schedules[id])
      ]_vars

\* C27: with two loop threads polling the shared job list, no job is run
\* twice for one due time: no two gateway calls are made for the same
\* schedule and time of day at the same moment (every schedule here has one
\* job per time of day).
C27_SharedJobRunsOncePerDueTime ==
    \A i, k \in DOMAIN outbox :
        (/\ i < k
         /\ outbox[i].kind = "medication"
         /\ outbox[k].kind = "medication"
         /\ outbox[i].schedule_id = outbox[k].schedule_id
         /\ outbox[i].at = outbox[k].at)
        => outbox[i].sent_at # outbox[k].sent_at

\* C28: at most one loop thread of the scheduler is alive with is_running set.
C28_AtMostOnePollingThread ==
    ~(is_running /\ pc # "none" /\ pc2 # "none")

\* The gateway calls made for the session's reminder r at time of day `at`
\* on calendar day `day`.
ReminderDeliveries(r, at, day) ==
    {i \in DOMAIN outbox : /\ outbox[i].kind = "medication"
                           /\ outbox[i].chat_id = r.chat_id
                           /\ outbox[i].at = at
                           /\ DayOf(outbox[i].sent_at) = day}

\* The entries of snapshot f made for the session's reminder r.
ReminderEntries(r, f) ==
    {i \in DOMAIN f.medications : /\ f.medications[i].medication_name = r.medication
                                  /\ f.medications[i].times = r.times}

\* C30: however often the button is clicked, for every reminder of the
\* session's list at most one delivery is made per time of day and calendar
\* day, and the snapshot holds at most one schedule for it.
C30_ClicksDoNotMultiply ==
    \A n \in DOMAIN SessionReminders :
        LET r == SessionReminders[n]
        IN /\ \A at \in Slots, day \in 0 .. DayOf(MaxNow) :
                  Cardinality(ReminderDeliveries(r, at, day)) <= 1
           /\ Cardinality(ReminderEntries(r, file)) <= 1

\* The delivery part of C30 for gateway calls made for different schedules.
C30_OneScheduleDeliversPerReminder ==
    \A i, k \in DOMAIN outbox :
        (/\ outbox[i].at = outbox[k].at
         /\ DayOf(outbox[i].sent_at) = DayOf(outbox[k].sent_at))
        => outbox[i].schedule_id = outbox[k].schedule_id

=============================================================================
